---- MODULE Spec2Model ----
(***************************************************************************)
(* Model of the Ansible module gitlab_runner_register                      *)
(* (src/gitlab_runner_register.py): the reconciliation of one GitLab       *)
(* Runner registration against a desired state.                            *)
(*                                                                         *)
(* The environment is the identity marker file (RUNNER_ID), the            *)
(* configuration document (RUNNER_CONFIG) and the gitlab-runner binary,    *)
(* whose exit codes are chosen nondeterministically.  One invocation of    *)
(* the module is Runner.__init__ followed by Runner.act, modelled step by  *)
(* step at each access to the environment.  The same play may be run       *)
(* again (Reinvoke) against the environment the previous run left behind.  *)
(***************************************************************************)
EXTENDS Naturals, Sequences, FiniteSets, TLC

\* ------------------------------------------------------------------ bounds

\* Invocations of the module against the same host.
MaxRuns == 2
\* Agent entries in the configuration document before the first invocation.
MaxRunners == 2

\* ------------------------------------------------------------ value spaces

\* Two names and two tokens: the code only compares them for equality.
Names == {"host1", "host2"}
Tokens == {"tokX", "tokY"}
\* A key that an agent entry does not have (KeyError on access).
NoField == "<no field>"
\* Python's None.
None == "<None>"

\* RunnerState
REREGISTERED == "Reregistered"
REGISTERED == "Registered"
UNREGISTERED == "Unregistered"
TOKEN_MISMATCH == "Token Mismatch"
NAME_MISMATCH == "Runner Name Mismatch"

\* Values of global_params, as TOML documents.  EmptyGlobals is the mapping {}.
DefaultGlobals == "concurrent=1 check_interval=0 connection_max_age=15m0s shutdown_timeout=0 session_timeout=1800"
CustomGlobals == "concurrent=10 check_interval=30"
EmptyGlobals == ""
\* What the gitlab-runner service wrote into its own configuration document.
ServiceGlobals == "written by the service"

get_default_globals == DefaultGlobals

\* The options that configure the runner at registration, and which of them
\* a caller supplies: none, the executor, or the other two without it.
ConfigSources == {"executor", "template_file", "environ_vars"}
SourceChoices == { {}, {"executor"}, {"template_file", "environ_vars"} }

\* make_argument_spec: the parameters given to AnsibleModule.  A
\* global_params the caller did not supply takes the default mapping.
ModuleParams ==
  { [state |-> s, token |-> t, name |-> n, recreate |-> r,
     global_params |-> IF g = None THEN get_default_globals ELSE g,
     globals_supplied |-> g # None, sources |-> c] :
      s \in {"present", "absent"}, t \in Tokens, n \in Names,
      r \in BOOLEAN, g \in {None, CustomGlobals, EmptyGlobals},
      c \in SourceChoices }

\* An agent entry ([[runners]] table) of the configuration document.
FirstEntries ==
  { [name |-> n, token |-> t] :
      n \in Names \cup {"", NoField}, t \in Tokens \cup {NoField} }
OtherEntries == { [name |-> n, token |-> t] : n \in Names, t \in Tokens }

RECURSIVE RunnerLists(_)
RunnerLists(k) ==
  IF k = 0 THEN { <<>> }
  ELSE LET shorter == RunnerLists(k - 1)
       IN shorter \cup
          { Append(l, e) : l \in { x \in shorter : Len(x) = k - 1 },
                           e \in IF k = 1 THEN FirstEntries ELSE OtherEntries }

\* The configuration document: whether the file exists, whether toml.load
\* parses it, whether it has a "runners" key, its global settings and its
\* agent entries.
AbsentConfig ==
  [exists |-> FALSE, parses |-> TRUE, has_runners |-> FALSE,
   globals |-> EmptyGlobals, runners |-> <<>>]
MalformedConfig ==
  [exists |-> TRUE, parses |-> FALSE, has_runners |-> FALSE,
   globals |-> EmptyGlobals, runners |-> <<>>]
InitialConfigs ==
  {AbsentConfig, MalformedConfig}
  \cup { [exists |-> TRUE, parses |-> TRUE, has_runners |-> FALSE,
          globals |-> ServiceGlobals, runners |-> <<>>] }
  \cup { [exists |-> TRUE, parses |-> TRUE, has_runners |-> TRUE,
          globals |-> ServiceGlobals, runners |-> l] :
            l \in RunnerLists(MaxRunners) }

EmptyDict == [k \in {} |-> None]
Event(op, arg) == [op |-> op, arg |-> arg]

\* ------------------------------------------------------------------- state

VARIABLES
  runner_id,        \* whether the identity marker file RUNNER_ID exists
  config,           \* the configuration document RUNNER_CONFIG
  params,           \* module.params of the current invocation
  pc,               \* position of the current invocation
  warnings,         \* Runner.warnings
  current_name,     \* Runner.current_name
  state_before,     \* act: state_before
  state_after,      \* act: state_after
  command_results,  \* Runner.command_results
  status,           \* what the status query of this invocation returned
  config_content,   \* act: config_content, as load_config_content returned it
  branch,           \* the branch of act that is running
  log,              \* accesses to the environment made by this invocation
  rcs,              \* exit codes of the commands this invocation has run
  result,           \* what exit_json / fail_json reported
  run,              \* invocations started so far
  prev              \* summary of the previous invocation

vars == <<runner_id, config, params, pc, warnings, current_name, state_before,
          state_after, command_results, status, config_content, branch, log,
          rcs, result, run, prev>>

env == <<runner_id, config>>
locals == <<warnings, current_name, state_before, state_after,
            command_results, config_content, branch>>

\* The status query's exit code, whether its stderr says "Service has
\* stopped" and whether its stdout says "Service is running".  The binary
\* reports a stopped service only with a non-zero exit code.
StatusOutcomes ==
  { o \in [rc : {0, 1}, stopped : BOOLEAN, running : BOOLEAN] :
      o.stopped => o.rc # 0 }
NoStatus == [rc |-> 0, stopped |-> FALSE, running |-> FALSE]

NoParams ==
  [state |-> None, token |-> None, name |-> None, recreate |-> FALSE,
   global_params |-> EmptyGlobals, globals_supplied |-> FALSE,
   sources |-> {}]
NoPrev ==
  [outcome |-> None, params |-> NoParams, state_before |-> None,
   observed |-> AbsentConfig, result |-> EmptyDict, log |-> <<>>]

Init ==
  /\ runner_id \in BOOLEAN
  /\ config \in InitialConfigs
  /\ params = NoParams
  /\ pc = "idle"
  /\ warnings = <<>>
  /\ current_name = None
  /\ state_before = None
  /\ state_after = None
  /\ command_results = EmptyDict
  /\ status = NoStatus
  /\ config_content = AbsentConfig
  /\ branch = None
  /\ log = <<>>
  /\ rcs = <<>>
  /\ result = EmptyDict
  /\ run = 0
  /\ prev = NoPrev

\* ------------------------------------------------------- pure computations

NameMismatchWarning == "Runner Name Mismatch. Perhaps re-registration required."

\* get_state with the token comparison inverted (== for !=).
get_state_token_eq(cfg, token, name) ==
  IF \/ ~cfg.has_runners
     \/ Len(cfg.runners) = 0
     \/ cfg.runners[1].name = NoField
     \/ cfg.runners[1].token = NoField
  THEN [state |-> UNREGISTERED, warnings |-> <<>>, current_name |-> None]
  ELSE IF cfg.runners[1].token = token
  THEN [state |-> TOKEN_MISMATCH, warnings |-> <<>>, current_name |-> None]
  ELSE IF cfg.runners[1].name # name
  THEN [state |-> REGISTERED, warnings |-> <<NameMismatchWarning>>,
        current_name |-> cfg.runners[1].name]
  ELSE [state |-> REGISTERED, warnings |-> <<>>, current_name |-> None]

\* get_state capturing the observed name before it compares the token.
get_state_capture_early(cfg, token, name) ==
  IF \/ ~cfg.has_runners
     \/ Len(cfg.runners) = 0
     \/ cfg.runners[1].name = NoField
     \/ cfg.runners[1].token = NoField
  THEN [state |-> UNREGISTERED, warnings |-> <<>>, current_name |-> None]
  ELSE IF cfg.runners[1].token # token
  THEN [state |-> TOKEN_MISMATCH, warnings |-> <<>>,
        current_name |-> IF cfg.runners[1].name # name
                         THEN cfg.runners[1].name ELSE None]
  ELSE IF cfg.runners[1].name # name
  THEN [state |-> REGISTERED, warnings |-> <<NameMismatchWarning>>,
        current_name |-> cfg.runners[1].name]
  ELSE [state |-> REGISTERED, warnings |-> <<>>, current_name |-> None]

\* get_state returning RunnerState.NAME_MISMATCH for a name mismatch.
get_state_name_state(cfg, token, name) ==
  IF \/ ~cfg.has_runners
     \/ Len(cfg.runners) = 0
     \/ cfg.runners[1].name = NoField
     \/ cfg.runners[1].token = NoField
  THEN [state |-> UNREGISTERED, warnings |-> <<>>, current_name |-> None]
  ELSE IF cfg.runners[1].token # token
  THEN [state |-> TOKEN_MISMATCH, warnings |-> <<>>, current_name |-> None]
  ELSE IF cfg.runners[1].name # name
  THEN [state |-> NAME_MISMATCH, warnings |-> <<NameMismatchWarning>>,
        current_name |-> cfg.runners[1].name]
  ELSE [state |-> REGISTERED, warnings |-> <<>>, current_name |-> None]

\* Runner.get_state: the state a parsed configuration document maps to, with
\* the warnings it appends and the name it captures.
get_state(cfg, token, name) ==
  IF \/ ~cfg.has_runners
     \/ Len(cfg.runners) = 0
     \/ cfg.runners[1].name = NoField
     \/ cfg.runners[1].token = NoField
  THEN [state |-> UNREGISTERED, warnings |-> <<>>, current_name |-> None]
  ELSE IF cfg.runners[1].token # token
  THEN [state |-> TOKEN_MISMATCH, warnings |-> <<>>, current_name |-> None]
  ELSE IF cfg.runners[1].name # name
  THEN [state |-> REGISTERED, warnings |-> <<NameMismatchWarning>>,
        current_name |-> cfg.runners[1].name]
  ELSE [state |-> REGISTERED, warnings |-> <<>>, current_name |-> None]

\* check_service without the search for "Service is running" in stdout.
service_failure_rc_only(o) ==
  IF o.rc # 0
  THEN IF o.stopped THEN "Service(systemd) not running."
                    ELSE "gitlab-runner can't get status"
  ELSE None

\* setup_module_object without required_one_of.
required_one_of_missing(sources) == TRUE

\* setup_module_object: required_one_of accepts the parameters when at least
\* one of executor, template_file and environ_vars is supplied.
required_one_of(sources) == sources \cap ConfigSources # {}

\* Runner.check_service: the message it fails with, or None when the service
\* is running.
service_failure(o) ==
  IF o.rc # 0
  THEN IF o.stopped THEN "Service(systemd) not running."
                    ELSE "gitlab-runner can't get status"
  ELSE IF ~o.running
  THEN "Gitlab-Runner service not running! Ensure service is up."
  ELSE None

\* verify_config_exists treating a missing identity marker like a missing
\* configuration document.
config_exists_marker_false(marker, cfg) ==
  IF ~marker THEN "False"
  ELSE IF cfg.exists THEN "True" ELSE "False"

\* Runner.verify_config_exists: fatal without the identity marker, else
\* whether the configuration document exists.
config_exists(marker, cfg) ==
  IF ~marker THEN "fatal"
  ELSE IF cfg.exists THEN "True" ELSE "False"

\* Runner.unregister_runner: the name passed to "unregister --name".  An
\* empty captured name is falsy, like None.
unregister_name(cur, name) ==
  IF cur # None /\ cur # "" THEN cur ELSE name

\* make_start_config that writes nothing.
start_config_skip(cfg, global_params) == cfg

\* Runner.make_start_config: the document after the step.  An empty mapping
\* is falsy and nothing is written.
start_config(cfg, global_params) ==
  IF global_params # EmptyGlobals
  THEN [exists |-> TRUE, parses |-> TRUE, has_runners |-> FALSE,
        globals |-> global_params, runners |-> <<>>]
  ELSE cfg

\* act re-registering a REGISTERED runner whatever the recreate flag.
act_branch_ignore_recreate(state, before, recreate) ==
  IF state = "present"
  THEN IF before = UNREGISTERED THEN "enable"
       ELSE IF before = TOKEN_MISMATCH THEN "reenable_token"
       ELSE IF before = REGISTERED THEN "reenable_recreate"
       ELSE "noop"
  ELSE IF state = "absent" /\ before = REGISTERED THEN "disable"
  ELSE "noop"

\* act unregistering, for state=absent, on a token mismatch too.
act_branch_absent_mismatch(state, before, recreate) ==
  IF state = "present"
  THEN IF before = UNREGISTERED THEN "enable"
       ELSE IF before = TOKEN_MISMATCH THEN "reenable_token"
       ELSE IF before = REGISTERED /\ recreate THEN "reenable_recreate"
       ELSE "noop"
  ELSE IF state = "absent" /\ before \in {REGISTERED, TOKEN_MISMATCH}
  THEN "disable"
  ELSE "noop"

\* Runner.act, lines 416-441: the branch taken for a desired state, an
\* observed state and the recreate flag.
act_branch(state, before, recreate) ==
  IF state = "present"
  THEN IF before = UNREGISTERED THEN "enable"
       ELSE IF before = TOKEN_MISMATCH THEN "reenable_token"
       ELSE IF before = REGISTERED /\ recreate THEN "reenable_recreate"
       ELSE "noop"
  ELSE IF state = "absent" /\ before = REGISTERED THEN "disable"
  ELSE "noop"

\* act reporting REGISTERED after a forced re-registration.
branch_state_after_registered(b) ==
  CASE b = "enable" -> REGISTERED
    [] b = "reenable_token" -> REREGISTERED
    [] b = "reenable_recreate" -> REGISTERED
    [] b = "disable" -> UNREGISTERED
    [] OTHER -> None

\* do_reenable registering before it unregisters.
do_steps_register_first(b) ==
  CASE b = "enable" -> <<"make_start_config", "register_runner">>
    [] b \in {"reenable_token", "reenable_recreate"} ->
         <<"make_start_config", "register_runner", "unregister_runner">>
    [] b = "disable" -> <<"unregister_runner">>
    [] OTHER -> <<>>

\* do_enable, do_reenable and do_disable: the calls the branch's action
\* makes, in order.
do_steps(b) ==
  CASE b = "enable" -> <<"make_start_config", "register_runner">>
    [] b \in {"reenable_token", "reenable_recreate"} ->
         <<"unregister_runner", "make_start_config", "register_runner">>
    [] b = "disable" -> <<"unregister_runner">>
    [] OTHER -> <<>>

\* Where act continues: with the branch's first call, with the call after
\* step s, or with the report when the branch's action has returned.
first_step(b) == IF do_steps(b) = <<>> THEN "report" ELSE do_steps(b)[1]
next_step(b, s) ==
  LET steps == do_steps(b)
      i == CHOOSE k \in 1..Len(steps) : steps[k] = s
  IN IF i = Len(steps) THEN "report" ELSE steps[i + 1]

\* register_runner and unregister_runner ignoring the exit code.
command_failed_never(rc) == FALSE

\* register_runner and unregister_runner: "if rc != 0" fails the module.
command_failed(rc) == rc # 0

\* load_config_content swallowing the parse error.
load_raises_never(cfg) == FALSE

\* Runner.load_config_content: toml.load raises on a document it cannot
\* parse, and nothing catches it.
load_raises(cfg) == ~cfg.parses

\* Runner.act: state_after assigned after the branch's action returned.
branch_state_after(b) ==
  CASE b = "enable" -> REGISTERED
    [] b = "reenable_token" -> REREGISTERED
    [] b = "reenable_recreate" -> REREGISTERED
    [] b = "disable" -> UNREGISTERED
    [] OTHER -> None

\* Runner.act: command_results["msg"] of the branch.
branch_msg(b) ==
  CASE b = "enable" -> "Init registering Runner"
    [] b = "reenable_token" -> "Reregistering Runner due to Token mismatch"
    [] b = "reenable_recreate" ->
         "Force reregistering Runner due to recreate option"
    [] b = "disable" -> "Unregistering Runner"
    [] OTHER -> None

\* act reporting the warnings only when no action was taken.
outcome_warnings_on_noop(before, after, msg, warns) ==
  LET runner_state == IF after # None THEN after ELSE before
      base == [runner_state |-> runner_state,
               changed |-> (before # runner_state)]
  IN IF msg # None THEN ("msg" :> msg) @@ base
     ELSE IF Len(warns) > 0 THEN ("warnings" :> warns) @@ base ELSE base

\* act computing changed from state_after (None on a no-op path) instead of
\* from the reported runner_state.
outcome_changed_from_after(before, after, msg, warns) ==
  LET runner_state == IF after # None THEN after ELSE before
      base == [runner_state |-> runner_state, changed |-> (before # after)]
      with_msg == IF msg # None THEN ("msg" :> msg) @@ base ELSE base
  IN IF Len(warns) > 0 THEN ("warnings" :> warns) @@ with_msg ELSE with_msg

\* Runner.act, lines 443-453: the outcome handed to exit_json.
outcome(before, after, msg, warns) ==
  LET runner_state == IF after # None THEN after ELSE before
      base == [runner_state |-> runner_state,
               changed |-> (before # runner_state)]
      with_msg == IF msg # None THEN ("msg" :> msg) @@ base ELSE base
  IN IF Len(warns) > 0 THEN ("warnings" :> warns) @@ with_msg ELSE with_msg

\* ------------------------------------------ the gitlab-runner binary's effects

RECURSIVE RemoveFirst(_, _)
RemoveFirst(l, n) ==
  IF l = <<>> THEN <<>>
  ELSE IF Head(l).name = n THEN Tail(l)
  ELSE <<Head(l)>> \o RemoveFirst(Tail(l), n)

RemoveAll(l, n) == SelectSeq(l, LAMBDA e : e.name # n)

\* A successful "unregister --name n": the entry of that name is gone from
\* the document (the first one, or all of them).
Unregistered(cfg, n, all) ==
  [cfg EXCEPT !.runners = IF all THEN RemoveAll(@, n) ELSE RemoveFirst(@, n)]

\* A successful "register --name n --token t": an entry is appended to the
\* document, which the binary creates when it is missing.
Registered(cfg, n, t) ==
  [exists |-> TRUE, parses |-> TRUE, has_runners |-> TRUE,
   globals |-> IF cfg.exists THEN cfg.globals ELSE ServiceGlobals,
   runners |-> Append(cfg.runners, [name |-> n, token |-> t])]

\* ------------------------------------------------------------------ actions

\* module.fail_json, or an exception that ends the process: nothing more runs.
Fail(msg) ==
  /\ pc' = "failed"
  /\ result' = [failed |-> TRUE, msg |-> msg]

RequiredOneOfMsg ==
  "one of the following is required: executor, template_file, environ_vars"

\* main: setup_module_object, which rejects parameters that fail
\* required_one_of, and Runner.__init__ of the first invocation.
Invoke ==
  /\ pc = "idle"
  /\ run = 0
  /\ params' \in ModuleParams
  /\ IF required_one_of(params'.sources)
     THEN pc' = "check_service" /\ UNCHANGED result
     ELSE Fail(RequiredOneOfMsg)
  /\ run' = 1
  /\ UNCHANGED <<env, locals, status, log, rcs, prev>>

\* The same play is run again: main with the parameters of the previous
\* invocation, against the environment as that invocation left it.
Reinvoke ==
  /\ pc \in {"exited", "failed"}
  /\ run < MaxRuns
  /\ prev' = [outcome |-> pc, params |-> params, state_before |-> state_before,
              observed |-> config_content, result |-> result, log |-> log]
  /\ IF required_one_of(params.sources)
     THEN pc' = "check_service" /\ result' = EmptyDict
     ELSE Fail(RequiredOneOfMsg)
  /\ run' = run + 1
  /\ warnings' = <<>>
  /\ current_name' = None
  /\ state_before' = None
  /\ state_after' = None
  /\ command_results' = EmptyDict
  /\ status' = NoStatus
  /\ config_content' = AbsentConfig
  /\ branch' = None
  /\ log' = <<>>
  /\ rcs' = <<>>
  /\ UNCHANGED <<env, params>>

\* Runner.check_service: the status query, with its exit code and whether
\* stderr says "Service has stopped" and stdout says "Service is running".
check_service ==
  /\ pc = "check_service"
  /\ log' = Append(log, Event("status", ""))
  /\ \E o \in StatusOutcomes :
       /\ status' = o
       /\ rcs' = Append(rcs, o.rc)
       /\ IF service_failure(o) # None
          THEN Fail(service_failure(o))
          ELSE pc' = "verify_config_exists" /\ UNCHANGED result
  /\ UNCHANGED <<env, params, locals, run, prev>>

\* Runner.verify_config_exists: os.stat of the identity marker, then of the
\* configuration document.
verify_config_exists ==
  /\ pc = "verify_config_exists"
  /\ IF config_exists(runner_id, config) = "fatal"
     THEN /\ log' = Append(log, Event("stat", "RUNNER_ID"))
          /\ Fail("Runner didn't initialize it's runner_id.")
     ELSE /\ log' = log \o <<Event("stat", "RUNNER_ID"),
                              Event("stat", "RUNNER_CONFIG")>>
          /\ pc' = IF config_exists(runner_id, config) = "True"
                   THEN "load_config" ELSE "no_config"
          /\ UNCHANGED result
  /\ UNCHANGED <<env, params, locals, status, rcs, run, prev>>

\* Runner.act, lines 410-412: load_config_content and get_state.  A document
\* toml.load cannot parse raises, which ends the process.
observe_config ==
  /\ pc = "load_config"
  /\ log' = Append(log, Event("load", "RUNNER_CONFIG"))
  /\ IF load_raises(config)
     THEN /\ Fail("toml.load raised TomlDecodeError")
          /\ UNCHANGED locals
     ELSE LET got == get_state(config, params.token, params.name)
          IN /\ config_content' = config
             /\ state_before' = got.state
             /\ warnings' = warnings \o got.warnings
             /\ current_name' = got.current_name
             /\ pc' = "dispatch"
             /\ UNCHANGED <<state_after, command_results, branch, result>>
  /\ UNCHANGED <<env, params, status, rcs, run, prev>>

\* Runner.act, lines 413-414: no configuration document.
observe_no_config ==
  /\ pc = "no_config"
  /\ state_before' = UNREGISTERED
  /\ pc' = "dispatch"
  /\ UNCHANGED <<env, params, warnings, current_name, state_after,
                 command_results, status, config_content, branch, log, rcs,
                 result, run, prev>>

\* Runner.act, lines 416-441: the branch is chosen and its first step called:
\* do_enable, do_reenable, do_disable, or nothing.
dispatch ==
  /\ pc = "dispatch"
  /\ LET b == act_branch(params.state, state_before, params.recreate)
     IN /\ branch' = b
        /\ pc' = first_step(b)
  /\ UNCHANGED <<env, params, warnings, current_name, state_before,
                 state_after, command_results, status, config_content, log,
                 rcs, result, run, prev>>

\* Runner.unregister_runner, called by do_disable and do_reenable.
unregister_runner ==
  /\ pc = "unregister_runner"
  /\ LET name == unregister_name(current_name, params.name)
     IN /\ log' = Append(log, Event("unregister", name))
        /\ \E rc \in {0, 1}, all \in BOOLEAN :
             /\ rcs' = Append(rcs, rc)
             /\ config' = IF rc = 0 THEN Unregistered(config, name, all)
                                    ELSE config
             /\ IF command_failed(rc)
                THEN Fail("Error while unregistering runner")
                ELSE /\ pc' = next_step(branch, "unregister_runner")
                     /\ UNCHANGED result
  /\ UNCHANGED <<runner_id, params, locals, status, run, prev>>

\* Runner.make_start_config, called by do_enable.
make_start_config ==
  /\ pc = "make_start_config"
  /\ log' = Append(log, Event("make_start_config", params.global_params))
  /\ config' = start_config(config, params.global_params)
  /\ pc' = next_step(branch, "make_start_config")
  /\ UNCHANGED <<runner_id, params, locals, status, rcs, result, run, prev>>

\* Runner.register_runner, called by do_enable.
register_runner ==
  /\ pc = "register_runner"
  /\ log' = Append(log, Event("register", params.name))
  /\ \E rc \in {0, 1} :
       /\ rcs' = Append(rcs, rc)
       /\ config' = IF rc = 0
                    THEN Registered(config, params.name, params.token)
                    ELSE config
       /\ IF command_failed(rc)
          THEN Fail("Error while registering runner")
          ELSE /\ pc' = next_step(branch, "register_runner")
               /\ UNCHANGED result
  /\ UNCHANGED <<runner_id, params, locals, status, run, prev>>

\* Runner.act, after the branch's action returned: state_after and msg of the
\* branch, then lines 443-455: runner_state, warnings, changed, exit_json.
report ==
  /\ pc = "report"
  /\ state_after' = branch_state_after(branch)
  /\ command_results' =
       outcome(state_before, branch_state_after(branch), branch_msg(branch),
               warnings)
  /\ result' = command_results'
  /\ pc' = "exited"
  /\ UNCHANGED <<env, params, warnings, current_name, state_before, status,
                 config_content, branch, log, rcs, run, prev>>

Next ==
  \/ Invoke
  \/ Reinvoke
  \/ check_service
  \/ verify_config_exists
  \/ observe_config
  \/ observe_no_config
  \/ dispatch
  \/ unregister_runner
  \/ make_start_config
  \/ register_runner
  \/ report

Spec == Init /\ [][Next]_vars

\* ------------------------------------------------------- reading the state

\* The steps of this invocation that change the environment, in order.
Mutations ==
  SelectSeq(log, LAMBDA e :
                   e.op \in {"unregister", "make_start_config", "register"})
Count(op) == Len(SelectSeq(log, LAMBDA e : e.op = op))

\* The document has a first agent entry with both a name and a token.
HasFirstEntry(c) ==
  /\ c.exists /\ c.parses /\ c.has_runners
  /\ Len(c.runners) >= 1
  /\ c.runners[1].name # NoField
  /\ c.runners[1].token # NoField

\* The invocation reached exit_json.
Exited == pc = "exited"
\* The invocation has observed the state (state_before is assigned).
Observed == state_before # None

SeedStep == Event("make_start_config", params.global_params)
RegisterStep == Event("register", params.name)
UnregisterStep(n) == Event("unregister", n)

\* ------------------------------------------------------------------ claims

\* C1: idempotence.  An invocation with state=present and recreate=false that
\* observes UNREGISTERED reports changed=true; when the play is then run
\* again with the same parameters and finds the first agent entry carrying
\* the desired name and token, it reports changed=false.  Starting from a
\* document without agent entries, a successful register leaves such a first
\* entry.
C1_Idempotence ==
  /\ (Exited /\ params.state = "present" /\ state_before = UNREGISTERED)
       => result.changed = TRUE
  /\ (/\ Exited /\ run >= 2 /\ prev.outcome = "exited"
      /\ params.state = "present" /\ ~params.recreate
      /\ prev.state_before = UNREGISTERED
      /\ \/ Len(prev.observed.runners) = 0
         \/ /\ HasFirstEntry(config_content)
            /\ config_content.runners[1].name = params.name
            /\ config_content.runners[1].token = params.token)
       => /\ prev.result.changed = TRUE
          /\ result.changed = FALSE
          /\ state_before = REGISTERED
          /\ Mutations = <<>>

C1_Witness ==
  /\ Exited /\ run = 2 /\ prev.outcome = "exited"
  /\ params.state = "present" /\ ~params.recreate
  /\ prev.state_before = UNREGISTERED
  /\ Len(prev.observed.runners) = 0
  /\ prev.result.changed = TRUE
  /\ result.changed = FALSE

\* C2 as stated: whenever the first agent entry's token differs from the
\* desired token, the result state is REREGISTERED and unregister (of the
\* desired name) then register are invoked, whatever the desired state.
C2_Original ==
  (/\ Exited
   /\ HasFirstEntry(config_content)
   /\ config_content.runners[1].token # params.token)
    => /\ result.runner_state = REREGISTERED
       /\ Mutations = <<UnregisterStep(params.name), SeedStep, RegisterStep>>

\* C2, amended: with state=present, whenever the first agent entry's token
\* differs from the desired token, no name is captured, every unregister
\* targets the desired name, register never runs before unregister, and an
\* invocation that reaches its report has run unregister then register and
\* reports REREGISTERED and changed=true.
C2_TokenMismatch ==
  (/\ Observed
   /\ params.state = "present"
   /\ HasFirstEntry(config_content)
   /\ config_content.runners[1].token # params.token)
    => /\ state_before = TOKEN_MISMATCH
       /\ current_name = None
       /\ Mutations \in
            { <<>>,
              <<UnregisterStep(params.name)>>,
              <<UnregisterStep(params.name), SeedStep>>,
              <<UnregisterStep(params.name), SeedStep, RegisterStep>> }
       /\ Exited =>
            /\ result.runner_state = REREGISTERED
            /\ result.changed = TRUE
            /\ result.msg = "Reregistering Runner due to Token mismatch"
            /\ Mutations =
                 <<UnregisterStep(params.name), SeedStep, RegisterStep>>

C2_Witness ==
  /\ Exited
  /\ params.state = "present"
  /\ HasFirstEntry(config_content)
  /\ config_content.runners[1].token # params.token
  /\ config_content.runners[1].name # params.name
  /\ config_content.runners[1].name # ""
  /\ result.runner_state = REREGISTERED
  /\ Mutations = <<UnregisterStep(params.name), SeedStep, RegisterStep>>

\* C3 as stated: whenever the first agent entry's token equals the desired
\* token and its name differs from the desired name, the result is REGISTERED
\* with a warning and changed=false, and nothing is invoked, whatever the
\* desired state and the recreate flag.
C3_Original ==
  (/\ Exited
   /\ HasFirstEntry(config_content)
   /\ config_content.runners[1].token = params.token
   /\ config_content.runners[1].name # params.name)
    => /\ result.runner_state = REGISTERED
       /\ "warnings" \in DOMAIN result
       /\ result.changed = FALSE
       /\ Mutations = <<>>

\* C3, amended: with state=present and recreate=false, whenever the first
\* agent entry's token equals the desired token and its name differs from the
\* desired name, the invocation reports REGISTERED, a non-empty warnings list
\* and changed=false, and invokes neither unregister, seeding nor register.
C3_NameMismatch ==
  (/\ Observed
   /\ params.state = "present" /\ ~params.recreate
   /\ HasFirstEntry(config_content)
   /\ config_content.runners[1].token = params.token
   /\ config_content.runners[1].name # params.name)
    => /\ Mutations = <<>>
       /\ Len(warnings) > 0
       /\ pc # "failed"
       /\ Exited =>
            /\ result.runner_state = REGISTERED
            /\ "warnings" \in DOMAIN result
            /\ Len(result.warnings) > 0
            /\ result.changed = FALSE
            /\ "msg" \notin DOMAIN result

C3_Witness ==
  /\ Exited
  /\ params.state = "present" /\ ~params.recreate
  /\ HasFirstEntry(config_content)
  /\ config_content.runners[1].token = params.token
  /\ config_content.runners[1].name # params.name
  /\ result.runner_state = REGISTERED
  /\ Len(result.warnings) > 0

MutationOps == [i \in 1..Len(Mutations) |-> Mutations[i].op]
\* The accesses of an invocation that passes preflight and finds both files.
FullObservation ==
  <<Event("status", ""), Event("stat", "RUNNER_ID"),
    Event("stat", "RUNNER_CONFIG"), Event("load", "RUNNER_CONFIG")>>

\* C4: with state=present and an observation that finds no configuration
\* document, no agent-entries section, no first entry or a first entry
\* lacking name or token, the observed state is UNREGISTERED; the invocation
\* runs the seeding step with the global settings (the default mapping when
\* the caller supplied none; a non-empty mapping replaces the document), then
\* register once and unregister never, and reports REGISTERED, changed=true
\* and "Init registering Runner".
C4_InitRegister ==
  (/\ Observed
   /\ params.state = "present"
   /\ ~HasFirstEntry(config_content))
    => /\ state_before = UNREGISTERED
       /\ ~params.globals_supplied => params.global_params = DefaultGlobals
       /\ Mutations \in {<<>>, <<SeedStep>>, <<SeedStep, RegisterStep>>}
       /\ (pc = "register_runner" /\ params.global_params # EmptyGlobals)
            => /\ config.exists
               /\ config.globals = params.global_params
               /\ config.runners = <<>>
       /\ Exited =>
            /\ Mutations = <<SeedStep, RegisterStep>>
            /\ result.runner_state = REGISTERED
            /\ result.changed = TRUE
            /\ result.msg = "Init registering Runner"
            /\ params.global_params # EmptyGlobals
                 => config.globals = params.global_params

C4_Witness ==
  /\ Exited
  /\ params.state = "present"
  /\ ~params.globals_supplied
  /\ ~config_content.exists
  /\ Mutations = <<SeedStep, RegisterStep>>
  /\ config.globals = DefaultGlobals
  /\ result.msg = "Init registering Runner"

\* C5: with state=present, observed REGISTERED and recreate=false, none of
\* unregister, seeding and register is invoked and the document is left as it
\* was; the only command run is the status query, and the invocation reports
\* REGISTERED, changed=false and no message.
C5_RegisteredNoop ==
  (/\ Observed
   /\ params.state = "present" /\ ~params.recreate
   /\ state_before = REGISTERED)
    => /\ Mutations = <<>>
       /\ log = FullObservation
       /\ config = config_content
       /\ pc # "failed"
       /\ Exited =>
            /\ result.runner_state = REGISTERED
            /\ result.changed = FALSE
            /\ "msg" \notin DOMAIN result

C5_Witness ==
  /\ Exited
  /\ params.state = "present" /\ ~params.recreate
  /\ state_before = REGISTERED
  /\ log = FullObservation
  /\ result.changed = FALSE

\* C6: with state=present and recreate=true, observed REGISTERED (with or
\* without a name mismatch): unregister, the seeding step and register run in
\* that order, each at most once, and an invocation that reaches its report
\* has run each exactly once and reports REREGISTERED, changed=true and
\* "Force reregistering Runner due to recreate option".
C6_Recreate ==
  (/\ Observed
   /\ params.state = "present" /\ params.recreate
   /\ state_before = REGISTERED)
    => /\ MutationOps \in
            { <<>>, <<"unregister">>, <<"unregister", "make_start_config">>,
              <<"unregister", "make_start_config", "register">> }
       /\ Exited =>
            /\ MutationOps = <<"unregister", "make_start_config", "register">>
            /\ result.runner_state = REREGISTERED
            /\ result.changed = TRUE
            /\ result.msg = "Force reregistering Runner due to recreate option"

C6_Witness ==
  /\ Exited
  /\ params.state = "present" /\ params.recreate
  /\ state_before = REGISTERED
  /\ Len(warnings) > 0
  /\ MutationOps = <<"unregister", "make_start_config", "register">>
  /\ result.runner_state = REREGISTERED

\* C7: with state=absent and either value of recreate: observed REGISTERED
\* runs unregister once and nothing else and reports UNREGISTERED,
\* changed=true and "Unregistering Runner"; observed UNREGISTERED or
\* TOKEN_MISMATCH runs nothing and reports the observed state, changed=false
\* and no message; register and seeding never run.
C7_Absent ==
  (Observed /\ params.state = "absent")
    => /\ state_before \in {REGISTERED, UNREGISTERED, TOKEN_MISMATCH}
       /\ Count("register") = 0
       /\ Count("make_start_config") = 0
       /\ Count("unregister") <= 1
       /\ Count("unregister") = 1 => state_before = REGISTERED
       /\ Exited =>
            IF state_before = REGISTERED
            THEN /\ MutationOps = <<"unregister">>
                 /\ result.runner_state = UNREGISTERED
                 /\ result.changed = TRUE
                 /\ result.msg = "Unregistering Runner"
            ELSE /\ Mutations = <<>>
                 /\ result.runner_state = state_before
                 /\ result.changed = FALSE
                 /\ "msg" \notin DOMAIN result

C7_Witness ==
  /\ Exited
  /\ params.state = "absent" /\ params.recreate
  /\ state_before = REGISTERED
  /\ MutationOps = <<"unregister">>
  /\ result.runner_state = UNREGISTERED

\* C8: in every invocation that reaches its report, changed=true exactly when
\* unregister or register was invoked, a message is present exactly when
\* changed=true, and when nothing was invoked the reported state is the
\* observed state.
C8_ChangedIffActed ==
  Exited =>
    /\ result.changed = (Count("unregister") + Count("register") > 0)
    /\ ("msg" \in DOMAIN result) = result.changed
    /\ Mutations = <<>> => result.runner_state = state_before

C8_Witness ==
  /\ Exited
  /\ state_before = TOKEN_MISMATCH
  /\ Mutations = <<>>
  /\ result.changed = FALSE
  /\ result.runner_state = TOKEN_MISMATCH

\* C9: once the status query has exited non-zero, or zero without saying that
\* the service is running, the invocation has failed and nothing else
\* happened: no file was read, no unregister, seeding or register ran, and no
\* outcome was computed.
C9_PreflightFatal ==
  (log # <<>> /\ (status.rc # 0 \/ ~status.running))
    => /\ pc = "failed"
       /\ log = <<Event("status", "")>>
       /\ result.failed = TRUE
       /\ state_before = None
       /\ command_results = EmptyDict

C9_Witness ==
  /\ pc = "failed"
  /\ status.rc # 0 /\ ~status.stopped /\ status.running
  /\ log = <<Event("status", "")>>

\* C10: once preflight has passed and the identity marker was looked for and
\* is absent, the invocation has failed and nothing else happened: the
\* configuration document was neither looked for nor parsed, no unregister,
\* seeding or register ran and no outcome was computed, whatever the desired
\* state and whether or not the configuration document exists.
C10_MarkerFatal ==
  (~runner_id /\ Count("stat") > 0)
    => /\ pc = "failed"
       /\ log = <<Event("status", ""), Event("stat", "RUNNER_ID")>>
       /\ result.failed = TRUE
       /\ result.msg = "Runner didn't initialize it's runner_id."
       /\ state_before = None
       /\ command_results = EmptyDict

C10_Witness ==
  /\ pc = "failed"
  /\ ~runner_id
  /\ HasFirstEntry(config)
  /\ params.state = "absent"
  /\ log = <<Event("status", ""), Event("stat", "RUNNER_ID")>>

\* A name mismatch was detected during observation: the first agent entry's
\* token is the desired token and its name is not the desired name.
NameMismatchObserved ==
  /\ HasFirstEntry(config_content)
  /\ config_content.runners[1].token = params.token
  /\ config_content.runners[1].name # params.name

\* C11: every unregister targets the name of the first agent entry when a
\* name mismatch was detected during observation, and the desired name
\* otherwise, for state=absent and for state=present with recreate=true; every
\* register uses the desired name.
C11_UnregisterTarget ==
  Observed =>
    \A i \in 1..Len(log) :
      /\ log[i].op = "unregister" =>
           log[i].arg = IF NameMismatchObserved
                        THEN config_content.runners[1].name
                        ELSE params.name
      /\ log[i].op = "register" => log[i].arg = params.name

\* C12: an invocation that supplies none of executor, template_file and
\* environ_vars is rejected before anything is run or read, and register is
\* never invoked with none of the three supplied.
C12_RequiredOneOf ==
  /\ (run >= 1 /\ params.sources \cap ConfigSources = {})
       => /\ pc = "failed"
          /\ log = <<>>
          /\ result.failed = TRUE
          /\ result.msg = RequiredOneOfMsg
  /\ Count("register") > 0 => params.sources \cap ConfigSources # {}

C12_Witness ==
  /\ run >= 1
  /\ params.sources = {}
  /\ params.state = "present"
  /\ pc = "failed"
  /\ log = <<>>

\* The accesses of this invocation that only read the environment.
Reads == SelectSeq(log, LAMBDA e : e.op \in {"status", "stat", "load"})
\* The accesses made up to the observation, when it found no document.
NoDocumentObservation ==
  <<Event("status", ""), Event("stat", "RUNNER_ID"),
    Event("stat", "RUNNER_CONFIG")>>

\* C13: the steps of one invocation are the status query, then the
\* observation (identity marker, configuration document), then at most one
\* unregister followed by at most one register, then the report; unregister
\* and register each run at most once, register never before unregister, no
\* action before the observation, and nothing after the report.
C13_StepOrder ==
  /\ log = Reads \o Mutations
  /\ Reads \in { SubSeq(FullObservation, 1, k) : k \in 0..4 }
  /\ MutationOps \in
       { <<>>, <<"unregister">>, <<"unregister", "make_start_config">>,
         <<"unregister", "make_start_config", "register">>,
         <<"make_start_config">>, <<"make_start_config", "register">> }
  /\ Mutations # <<>> =>
       /\ Observed
       /\ Reads \in {FullObservation, NoDocumentObservation}
  /\ command_results # EmptyDict => Exited
  /\ Exited =>
       /\ Observed
       /\ Reads \in {FullObservation, NoDocumentObservation}
       /\ result = command_results
       /\ MutationOps \in
            { <<>>, <<"unregister">>, <<"make_start_config", "register">>,
              <<"unregister", "make_start_config", "register">> }

C13_Witness ==
  /\ Exited
  /\ log = FullObservation \o
           <<UnregisterStep(params.name), SeedStep, RegisterStep>>

\* The document make_start_config leaves when it writes the mapping g.
SeededDocument(g) ==
  [exists |-> TRUE, parses |-> TRUE, has_runners |-> FALSE, globals |-> g,
   runners |-> <<>>]

\* C14: every register is immediately preceded by a seeding step that has
\* replaced the configuration document with the global settings, whatever
\* the mapping (an empty one included); no seeding step precedes an
\* unregister, and none runs in an invocation that only unregisters.
C14_SeedingAlways ==
  /\ \A i \in 1..Len(log) :
       log[i].op = "register" => (i > 1 /\ log[i - 1] = SeedStep)
  /\ pc = "register_runner" => config = SeededDocument(params.global_params)
  /\ \A i, j \in 1..Len(log) :
       (log[i].op = "make_start_config" /\ log[j].op = "unregister") => j < i
  /\ branch = "disable" => Count("make_start_config") = 0

\* C15: a non-zero exit of status, unregister or register ends the
\* invocation at once: it is the last command run, nothing is reported, and
\* no command or seeding step runs twice.  When unregister fails the document
\* is as it was observed and neither seeding nor register has run; when
\* register fails after unregister, the document is the unregistered and
\* seeded one.
C15_FailFast ==
  LET last == log[Len(log)]
      failed_at(op) ==
        /\ rcs # <<>> /\ rcs[Len(rcs)] # 0
        /\ last.op = op
  IN /\ Len(rcs) = Count("status") + Count("unregister") + Count("register")
     /\ \A op \in {"status", "unregister", "make_start_config", "register"} :
          Count(op) <= 1
     /\ \A i \in 1..Len(rcs) :
          rcs[i] # 0 =>
            /\ i = Len(rcs)
            /\ last.op \in {"status", "unregister", "register"}
            /\ pc = "failed"
            /\ result.failed = TRUE
            /\ command_results = EmptyDict
     /\ failed_at("unregister") =>
          /\ config = config_content
          /\ Mutations = <<last>>
     /\ (failed_at("register") /\ Count("unregister") = 1) =>
          /\ Mutations = <<Mutations[1], SeedStep, RegisterStep>>
          /\ config \in
               { start_config(Unregistered(config_content, Mutations[1].arg, a),
                              params.global_params) : a \in BOOLEAN }

C15_Witness ==
  /\ pc = "failed"
  /\ rcs = <<0, 0, 1>>
  /\ MutationOps = <<"unregister", "make_start_config", "register">>
  /\ config # config_content
  /\ config = SeededDocument(params.global_params)

\* C16: a configuration document that exists and does not parse ends the
\* invocation in a fatal error when it is loaded: no state is observed,
\* nothing is invoked, the document is left as it is and nothing is
\* reported.  An observation that loaded a document and found UNREGISTERED
\* loaded a well-formed one without a complete first entry.  (A load that
\* returned nothing leaves config_content unassigned, which is AbsentConfig.)
C16_ParseFailureFatal ==
  /\ (Count("load") > 0 /\ ~config_content.exists)
       => /\ ~config.parses
          /\ pc = "failed"
          /\ result.failed = TRUE
          /\ state_before = None
          /\ Mutations = <<>>
          /\ command_results = EmptyDict
  /\ (Count("load") > 0 /\ ~config.parses) => pc = "failed"
  /\ (Count("load") > 0 /\ state_before = UNREGISTERED)
       => /\ config_content.exists /\ config_content.parses
          /\ ~HasFirstEntry(config_content)

C16_Witness ==
  /\ pc = "failed"
  /\ config = MalformedConfig
  /\ Count("load") = 1
  /\ params.state = "present"
  /\ state_before = None

\* C17: the observed state is one of UNREGISTERED, REGISTERED and
\* TOKEN_MISMATCH; the reported state is one of these or REREGISTERED;
\* NAME_MISMATCH is neither observed nor reported: a name mismatch is
\* observed as REGISTERED.
C17_StateDomain ==
  /\ state_before \in {None, UNREGISTERED, REGISTERED, TOKEN_MISMATCH}
  /\ (pc \in {"dispatch", "unregister_runner", "make_start_config",
               "register_runner", "report", "exited"})
       => state_before \in {UNREGISTERED, REGISTERED, TOKEN_MISMATCH}
  /\ (Observed /\ NameMismatchObserved) => state_before = REGISTERED
  /\ Exited =>
       result.runner_state \in
         {UNREGISTERED, REGISTERED, TOKEN_MISMATCH, REREGISTERED}

C17_Witness ==
  /\ Exited
  /\ NameMismatchObserved
  /\ state_before = REGISTERED
  /\ result.runner_state = REREGISTERED

\* C18: after an invocation with state=present and recreate=false that
\* reached its report, the same invocation run again observes REGISTERED,
\* invokes nothing and reports changed=false, whatever the document was and
\* whatever the global settings mapping is.
C18_Convergence ==
  (/\ run >= 2 /\ prev.outcome = "exited"
   /\ params.state = "present" /\ ~params.recreate
   /\ Observed)
    => /\ state_before = REGISTERED
       /\ Mutations = <<>>
       /\ Exited => result.changed = FALSE

\* The previous invocation was a re-registration that failed in register,
\* after its unregister had succeeded.
PrevAbortedAfterUnregister ==
  /\ run >= 2 /\ prev.outcome = "failed"
  /\ prev.result.msg = "Error while registering runner"
  /\ \E i \in 1..Len(prev.log) : prev.log[i].op = "unregister"

\* C19: after a re-registration that failed after its unregister succeeded,
\* the same invocation run again observes UNREGISTERED, never unregisters,
\* and when its commands succeed it registers and reports REGISTERED and
\* changed=true.
C19_Recovery ==
  (PrevAbortedAfterUnregister /\ Observed)
    => /\ state_before = UNREGISTERED
       /\ Count("unregister") = 0
       /\ Exited =>
            /\ Mutations = <<SeedStep, RegisterStep>>
            /\ result.runner_state = REGISTERED
            /\ result.changed = TRUE

\* C20: the outcome carries the name-mismatch warning exactly when the first
\* agent entry observed has the desired token and another name than the
\* desired one, whatever the desired state and the recreate flag, also when
\* the invocation re-registers or unregisters; never when UNREGISTERED or
\* TOKEN_MISMATCH was observed.
C20_WarningIffNameMismatch ==
  Exited =>
    /\ ("warnings" \in DOMAIN result) = NameMismatchObserved
    /\ NameMismatchObserved => result.warnings = <<NameMismatchWarning>>
    /\ state_before \in {UNREGISTERED, TOKEN_MISMATCH}
         => "warnings" \notin DOMAIN result

C20_Witness ==
  /\ Exited
  /\ NameMismatchObserved
  /\ params.state = "absent"
  /\ result.changed = TRUE
  /\ result.warnings = <<NameMismatchWarning>>

====
